---------------------------- MODULE Spec2Model ----------------------------
(***************************************************************************)
(* Model of the chat backend in agent.py / server.py: the keyword          *)
(* predicates (is_brief_ack, wants_handoff, _looks_like_yes,               *)
(* _looks_like_no), the process-wide flag AWAITING_LEAD_CONFIRM and the    *)
(* dialogue controller answer_question, driven by the /chat endpoint.      *)
(*                                                                         *)
(* Messages and replies are strings; the Python string operations          *)
(* (strip, lower, in, startswith, endswith) are computed character by      *)
(* character.  The three fixed replies that contain non-ASCII characters   *)
(* in the source (a typographic apostrophe, an emoji, an em dash) are      *)
(* written with ASCII substitutes; they are only ever compared whole.      *)
(***************************************************************************)
EXTENDS Integers, Sequences, FiniteSets, TLC

(***************************************************************************)
(* Python string operations                                                *)
(***************************************************************************)

\* Characters str.strip() removes (the ASCII whitespace the inputs use).
Whitespace == {" ", "\t", "\n"}

UpperCase == "ABCDEFGHIJKLMNOPQRSTUVWXYZ"
LowerCase == "abcdefghijklmnopqrstuvwxyz"

\* s[i] as a one-character string (1-based).
Char(s, i) == SubSeq(s, i, i)

\* The lowercase letter of every uppercase letter.
LowerOf ==
    [c \in {Char(UpperCase, k) : k \in 1..Len(UpperCase)} |->
        Char(LowerCase, CHOOSE k \in 1..Len(UpperCase) : Char(UpperCase, k) = c)]

\* str.lower() on one character.
LowerChar(c) == IF c \in DOMAIN LowerOf THEN LowerOf[c] ELSE c

RECURSIVE lower(_)
\* str.lower()
lower(s) == IF Len(s) = 0 THEN ""
            ELSE LowerChar(Char(s, 1)) \o lower(SubSeq(s, 2, Len(s)))

\* str.strip(): drop leading and trailing whitespace.
strip(s) ==
    LET keep == {i \in 1..Len(s) : Char(s, i) \notin Whitespace}
    IN  IF keep = {} THEN ""
        ELSE LET lo == CHOOSE i \in keep : \A j \in keep : i <= j
                 hi == CHOOSE i \in keep : \A j \in keep : j <= i
             IN  SubSeq(s, lo, hi)

\* Python's `p in txt` on strings: p occurs as a substring of txt.
Contains(p, txt) ==
    \E i \in 1..(Len(txt) - Len(p) + 1) : SubSeq(txt, i, i + Len(p) - 1) = p

\* str.startswith
startswith(txt, p) == Len(p) <= Len(txt) /\ SubSeq(txt, 1, Len(p)) = p

\* str.endswith
endswith(txt, p) ==
    Len(p) <= Len(txt) /\ SubSeq(txt, Len(txt) - Len(p) + 1, Len(txt)) = p

\* any(p in txt for p in phrases), phrases a set of strings
AnyIn(phrases, txt) == \E p \in phrases : Contains(p, txt)

(***************************************************************************)
(* Word lists                                                              *)
(***************************************************************************)

YES_WORDS == {"yes", "yeah", "yep", "sure", "yes please", "please do",
              "that would be great", "ok", "okay", "sounds good"}

NO_WORDS == {"no", "nope", "nah", "not now", "not yet", "i'm good",
             "im good", "i am good", "i'm okay", "im okay"}

ack_phrases == {"thanks", "thank you", "thx", "ok", "okay", "got it",
                "that helps", "perfect", "sounds good", "awesome", "great",
                "cool", "sweet", "appreciate it"}

explicit_triggers ==
    {"can i leave my info", "can i give you my info", "can i give u my info",
     "take my info", "take my information", "i want to give you my info",
     "i want to leave my info", "i want to give u my info",
     "i want to give u info", "leave my info", "leave my information",
     "give you my info", "give u my info", "share my info", "pass my info",
     "give my info", "give my information", "here is my info",
     "here's my info", "talk to a human", "speak to a human",
     "have someone call me", "have somebody call me",
     "have the office call me", "call me back", "can someone call me",
     "can somebody call me"}

inquiry_words ==
    {"offer", "offers", "do you have", "do you do", "price", "prices",
     "cost", "hours", "open", "close", "location", "where are you",
     "emergency", "tooth", "pain", "insurance", "whitening", "cleaning",
     "cleanings"}

info_words == {"info", "information", "details", "contact"}

verbs == {"leave", "give", "share", "pass", "provide", "send", "take"}

pain_keywords ==
    {"pain", "hurts", "hurt", "ache", "aching", "injury", "injured",
     "emergency", "swollen", "swelling", "can't sleep", "cant sleep",
     "stiff", "spasm", "spasms", "numb", "numbness", "tingling", "tingly"}

appointment_keywords ==
    {"appointment", "appt", "appts", "visit", "come in", "come by",
     "see someone", "see the doctor", "see the dentist",
     "see the chiropractor", "see the chiro", "schedule", "book"}

(***************************************************************************)
(* Lexicon predicates                                                      *)
(***************************************************************************)

\* is_brief_ack without the lowercasing.
is_brief_ack_NoLower(message) ==
    LET txt == strip(message)
    IN  IF txt = "" THEN FALSE
        ELSE IF Len(txt) > 30 THEN FALSE
        ELSE txt \in ack_phrases

is_brief_ack(message) ==
    LET txt == lower(strip(message))
    IN  IF txt = "" THEN FALSE
        ELSE IF Len(txt) > 30 THEN FALSE
        ELSE txt \in ack_phrases

\* wants_handoff with the question-mark and inquiry-word checks ahead of the
\* explicit phrases.
wants_handoff_QuestionFirst(message) ==
    LET txt == lower(strip(message))
    IN  IF txt = "" THEN FALSE
        ELSE IF txt \in {"info", "my info"} THEN TRUE
        ELSE IF endswith(txt, "?") THEN FALSE
        ELSE IF AnyIn(inquiry_words, txt) THEN FALSE
        ELSE IF AnyIn(explicit_triggers, txt) THEN TRUE
        ELSE IF AnyIn(info_words, txt) /\ AnyIn(verbs, txt) THEN TRUE
        ELSE FALSE

wants_handoff(message) ==
    LET txt == lower(strip(message))
    IN  IF txt = "" THEN FALSE
        ELSE IF txt \in {"info", "my info"} THEN TRUE
        ELSE IF AnyIn(explicit_triggers, txt) THEN TRUE
        ELSE IF endswith(txt, "?") THEN FALSE
        ELSE IF AnyIn(inquiry_words, txt) THEN FALSE
        ELSE IF AnyIn(info_words, txt) /\ AnyIn(verbs, txt) THEN TRUE
        ELSE FALSE

_looks_like_yes(t) ==
    LET txt == lower(strip(t))
    IN  IF txt = "" THEN FALSE
        ELSE \E w \in YES_WORDS : txt = w \/ startswith(txt, w \o " ")

_looks_like_no(t) ==
    LET txt == lower(strip(t))
    IN  IF txt = "" THEN FALSE
        ELSE \E w \in NO_WORDS : txt = w \/ startswith(txt, w \o " ")

(***************************************************************************)
(* Fixed replies                                                           *)
(***************************************************************************)

\* The sentinel that tells the widget to start lead collection.
TRIGGER_LEAD_FLOW == "__TRIGGER_LEAD_FLOW__"

DECLINE_REPLY ==
    "No problem at all - if you change your mind later, just let me know and I can have the team reach out."

THANKS_REPLY ==
    "You're very welcome! :) If you have any other questions, just ask."

APOLOGY_REPLY ==
    "I'm sorry, something went wrong generating a reply. Please try again."

CALLBACK_OFFER ==
    "\n\nIf you'd like, I can have the team give you a call to help with this - just reply 'yes' and I'll collect your phone number."

(***************************************************************************)
(* The generation capability (client.responses.create), as seen by         *)
(* answer_question.  One outcome per invocation:                           *)
(*   "raise"     the call itself raises (timeout, API or network error)    *)
(*   "malformed" the call returns, but resp.output[0].content[0].text      *)
(*               raises (no output, no content, no text attribute)         *)
(*   "text"      the call returns a response carrying the string `text`    *)
(*               (possibly empty or whitespace-only)                       *)
(***************************************************************************)
GenRaise     == [kind |-> "raise", text |-> ""]
GenMalformed == [kind |-> "malformed", text |-> ""]
GenText(t)   == [kind |-> "text", text |-> t]

\* Recorded for a request that did not invoke the generation capability.
NoGen == [kind |-> "none", text |-> ""]

(***************************************************************************)
(* answer_question, step by step                                           *)
(***************************************************************************)

\* ConfirmStep with the reset of the flag left out of the "yes" branch.
ConfirmStep_YesKeepsFlag(lower_txt, awaiting) ==
    IF awaiting
    THEN IF _looks_like_yes(lower_txt)
         THEN [returned |-> TRUE, reply |-> TRIGGER_LEAD_FLOW, flag |-> awaiting]
         ELSE IF _looks_like_no(lower_txt)
         THEN [returned |-> TRUE, reply |-> DECLINE_REPLY, flag |-> FALSE]
         ELSE [returned |-> FALSE, reply |-> "", flag |-> FALSE]
    ELSE [returned |-> FALSE, reply |-> "", flag |-> awaiting]

\* ConfirmStep whose "no" branch resets the flag but does not return.
ConfirmStep_NoFallsThrough(lower_txt, awaiting) ==
    IF awaiting
    THEN IF _looks_like_yes(lower_txt)
         THEN [returned |-> TRUE, reply |-> TRIGGER_LEAD_FLOW, flag |-> FALSE]
         ELSE [returned |-> FALSE, reply |-> "", flag |-> FALSE]
    ELSE [returned |-> FALSE, reply |-> "", flag |-> awaiting]

\* ConfirmStep that leaves the question pending when the message is neither
\* yes nor no.
ConfirmStep_KeepsPending(lower_txt, awaiting) ==
    IF awaiting
    THEN IF _looks_like_yes(lower_txt)
         THEN [returned |-> TRUE, reply |-> TRIGGER_LEAD_FLOW, flag |-> FALSE]
         ELSE IF _looks_like_no(lower_txt)
         THEN [returned |-> TRUE, reply |-> DECLINE_REPLY, flag |-> FALSE]
         ELSE [returned |-> FALSE, reply |-> "", flag |-> awaiting]
    ELSE [returned |-> FALSE, reply |-> "", flag |-> awaiting]

\* ConfirmStep that consults the yes/no vocabulary whether or not a question
\* is pending.
ConfirmStep_AlwaysAsks(lower_txt, awaiting) ==
    IF _looks_like_yes(lower_txt)
    THEN [returned |-> TRUE, reply |-> TRIGGER_LEAD_FLOW, flag |-> FALSE]
    ELSE IF _looks_like_no(lower_txt)
    THEN [returned |-> TRUE, reply |-> DECLINE_REPLY, flag |-> FALSE]
    ELSE [returned |-> FALSE, reply |-> "", flag |-> FALSE]

\* Step 1: the pending yes/no question.  `returned` tells whether the
\* function returns here; `flag` is AWAITING_LEAD_CONFIRM afterwards.
ConfirmStep(lower_txt, awaiting) ==
    IF awaiting
    THEN IF _looks_like_yes(lower_txt)
         THEN [returned |-> TRUE, reply |-> TRIGGER_LEAD_FLOW, flag |-> FALSE]
         ELSE IF _looks_like_no(lower_txt)
         THEN [returned |-> TRUE, reply |-> DECLINE_REPLY, flag |-> FALSE]
         ELSE [returned |-> FALSE, reply |-> "", flag |-> FALSE]
    ELSE [returned |-> FALSE, reply |-> "", flag |-> awaiting]

\* Step 4: one call of the generation capability and the extraction of its
\* text.  The call is outside the try block, the extraction inside it.
Generate(gen) ==
    IF gen.kind = "raise"
    THEN [raised |-> TRUE, returned |-> FALSE, answer |-> ""]
    ELSE IF gen.kind = "malformed"
    THEN [raised |-> FALSE, returned |-> TRUE, answer |-> APOLOGY_REPLY]
    ELSE [raised |-> FALSE, returned |-> FALSE, answer |-> strip(gen.text)]

\* looks_like_pain_or_appt, computed on the stripped, lowercased message.
looks_like_pain_or_appt(lower_txt) ==
    AnyIn(pain_keywords \cup appointment_keywords, lower_txt)

\* PostProcess that scans the generated answer instead of the message.
PostProcess_ScansAnswer(raw_txt, lower_txt, answer, flag) ==
    IF looks_like_pain_or_appt(lower(answer)) /\ ~wants_handoff(raw_txt)
    THEN [reply |-> answer \o CALLBACK_OFFER, flag |-> TRUE]
    ELSE [reply |-> answer, flag |-> flag]

\* PostProcess that arms the flag after every generated answer.
PostProcess_AlwaysArms(raw_txt, lower_txt, answer, flag) ==
    IF looks_like_pain_or_appt(lower_txt) /\ ~wants_handoff(raw_txt)
    THEN [reply |-> answer \o CALLBACK_OFFER, flag |-> TRUE]
    ELSE [reply |-> answer, flag |-> TRUE]

\* Step 5: the callback offer after a generated answer.
PostProcess(raw_txt, lower_txt, answer, flag) ==
    IF looks_like_pain_or_appt(lower_txt) /\ ~wants_handoff(raw_txt)
    THEN [reply |-> answer \o CALLBACK_OFFER, flag |-> TRUE]
    ELSE [reply |-> answer, flag |-> flag]

\* One evaluation inside a call, with the value the flag has at that moment.
Ev(op, flag) == [op |-> op, flag |-> flag]

\* What one call of answer_question does: its reply (or that it raised),
\* the flag it leaves, the number of generation calls it made, and the
\* classifications it evaluated after step 1, in order.
Outcome(reply, raised, flag, gen_calls, trace) ==
    [reply |-> reply, raised |-> raised, flag |-> flag,
     gen_calls |-> gen_calls, trace |-> trace]

\* answer_question with the handoff check ahead of the acknowledgement check.
answer_question_HandoffFirst(question, awaiting, gen) ==
    LET raw_txt   == question
        lower_txt == lower(strip(raw_txt))
        c  == ConfirmStep(lower_txt, awaiting)
        t2 == <<Ev("wants_handoff", c.flag)>>
        t3 == Append(t2, Ev("is_brief_ack", c.flag))
        t4 == Append(t3, Ev("generate", c.flag))
    IN  IF c.returned THEN Outcome(c.reply, FALSE, c.flag, 0, <<>>)
        ELSE IF wants_handoff(raw_txt)
        THEN Outcome(TRIGGER_LEAD_FLOW, FALSE, c.flag, 0, t2)
        ELSE IF is_brief_ack(raw_txt)
        THEN Outcome(THANKS_REPLY, FALSE, c.flag, 0, t3)
        ELSE LET g == Generate(gen)
             IN  IF g.raised THEN Outcome("", TRUE, c.flag, 1, t4)
                 ELSE IF g.returned THEN Outcome(g.answer, FALSE, c.flag, 1, t4)
                 ELSE LET p == PostProcess(raw_txt, lower_txt, g.answer, c.flag)
                      IN  Outcome(p.reply, FALSE, p.flag, 1,
                                  Append(t4, Ev("post", c.flag)))

\* answer_question without step 3, leaving handoff requests to the generator.
answer_question_NoHandoffStep(question, awaiting, gen) ==
    LET raw_txt   == question
        lower_txt == lower(strip(raw_txt))
        c  == ConfirmStep(lower_txt, awaiting)
        t2 == <<Ev("is_brief_ack", c.flag)>>
        t4 == Append(t2, Ev("generate", c.flag))
    IN  IF c.returned THEN Outcome(c.reply, FALSE, c.flag, 0, <<>>)
        ELSE IF is_brief_ack(raw_txt)
        THEN Outcome(THANKS_REPLY, FALSE, c.flag, 0, t2)
        ELSE LET g == Generate(gen)
             IN  IF g.raised THEN Outcome("", TRUE, c.flag, 1, t4)
                 ELSE IF g.returned THEN Outcome(g.answer, FALSE, c.flag, 1, t4)
                 ELSE LET p == PostProcess(raw_txt, lower_txt, g.answer, c.flag)
                      IN  Outcome(p.reply, FALSE, p.flag, 1,
                                  Append(t4, Ev("post", c.flag)))

answer_question(question, awaiting, gen) ==
    LET raw_txt   == question
        lower_txt == lower(strip(raw_txt))
        c  == ConfirmStep(lower_txt, awaiting)
        t2 == <<Ev("is_brief_ack", c.flag)>>
        t3 == Append(t2, Ev("wants_handoff", c.flag))
        t4 == Append(t3, Ev("generate", c.flag))
    IN  IF c.returned THEN Outcome(c.reply, FALSE, c.flag, 0, <<>>)
        ELSE IF is_brief_ack(raw_txt)
        THEN Outcome(THANKS_REPLY, FALSE, c.flag, 0, t2)
        ELSE IF wants_handoff(raw_txt)
        THEN Outcome(TRIGGER_LEAD_FLOW, FALSE, c.flag, 0, t3)
        ELSE LET g == Generate(gen)
             IN  IF g.raised THEN Outcome("", TRUE, c.flag, 1, t4)
                 ELSE IF g.returned THEN Outcome(g.answer, FALSE, c.flag, 1, t4)
                 ELSE LET p == PostProcess(raw_txt, lower_txt, g.answer, c.flag)
                      IN  Outcome(p.reply, FALSE, p.flag, 1,
                                  Append(t4, Ev("post", c.flag)))

(***************************************************************************)
(* Inputs                                                                  *)
(***************************************************************************)

\* Longest run of whitespace put around a message or a generated text.
MaxPad == 1

RECURSIVE Rep(_, _)
Rep(c, k) == IF k = 0 THEN "" ELSE c \o Rep(c, k - 1)

\* s with l spaces in front and r newlines behind.
Padded(s, l, r) == Rep(" ", l) \o s \o Rep("\n", r)

\* Customer messages as typed.
PlainMessages ==
    {"hello", "what are your hours?", "do you have whitening info",
     "thanks", "thanks, also what are your hours?", "ok thanks", "Okay",
     "got it", "sounds good", "sounds good to me",
     "YES", "Yes please", "yesterday", "yes it hurts", "yes take my info",
     "no thanks", "nothing", "no call me back", "no it hurts",
     "take my information", "can I leave my info",
     "I want to give you my info", "can someone call me?",
     "send my details", "send my details?",
     "My tooth really hurts, can I come in today?", "book a visit"}

\* Messages also sent with surrounding whitespace (and as nothing but it).
PaddedMessages == {"", "ok", "No", "Info"}

Messages ==
    PlainMessages \cup
    {Padded(m, l, r) : m \in PaddedMessages, l \in 0..MaxPad, r \in 0..MaxPad}

\* Texts the generator may produce.
GenTexts ==
    {Padded(t, k, k) : t \in {"", "We are open 9 to 5.", TRIGGER_LEAD_FLOW},
                       k \in 0..MaxPad}

GenOutcomes == {GenRaise, GenMalformed} \cup {GenText(t) : t \in GenTexts}

(***************************************************************************)
(* State                                                                   *)
(***************************************************************************)

VARIABLES
    AWAITING_LEAD_CONFIRM,  \* the process-wide flag of agent.py
    last,                   \* the most recent /chat request and its result
    prev,                   \* what the request before it returned
    session,                \* who sent the requests, and who was offered a call
    leads_csv,              \* the file leads.csv: whether it exists, its rows
    leads_csv0,             \* leads.csv as the process found it at start
    RESEND_API_KEY,         \* whether the environment sets RESEND_API_KEY
    leads,                  \* the /lead submissions so far, each with its
                            \* response and the state of its email task
    lexicon                 \* a text given to the four predicates, and
                            \* what they returned

chat_vars == <<AWAITING_LEAD_CONFIRM, last, prev, session>>
lead_vars == <<leads_csv, leads_csv0, RESEND_API_KEY, leads>>
vars == <<AWAITING_LEAD_CONFIRM, last, prev, session,
          leads_csv, leads_csv0, RESEND_API_KEY, leads, lexicon>>

NoCall == [called |-> FALSE, question |-> "", entry |-> FALSE,
           gen |-> NoGen, reply |-> "", raised |-> FALSE,
           gen_calls |-> 0, trace |-> <<>>]

NoPrev == [called |-> FALSE, entry |-> FALSE, reply |-> "",
           raised |-> FALSE, flag |-> FALSE, same_question |-> FALSE]

\* The customers whose widgets talk to the one backend process.
Customers == {"A", "B"}

\* Nobody has sent anything and nobody has been offered a call.
NoSession == [sender |-> "", was_offered |-> FALSE,
              prev_sender |-> "", prev_was_offered |-> FALSE,
              prev_accepted |-> FALSE,
              offered |-> [c \in Customers |-> FALSE]]

\* leads.csv does not exist.
NoFile == [exists |-> FALSE, rows |-> <<>>]

InitChat ==
    /\ AWAITING_LEAD_CONFIRM = FALSE
    /\ last = NoCall
    /\ prev = NoPrev
    /\ session = NoSession

\* No submission yet, no file, no key.
InitNoLeads ==
    /\ leads_csv = NoFile
    /\ leads_csv0 = NoFile
    /\ RESEND_API_KEY = FALSE
    /\ leads = <<>>

\* A text as it is put together: a phrase, words before and after it, a
\* letter case and whitespace around it.
LexInput(core, pre, post, casing, l, r) ==
    [core |-> core, pre |-> pre, post |-> post, casing |-> casing,
     l |-> l, r |-> r]

\* Nothing has been given to the predicates.
NoLexicon ==
    [input |-> LexInput("", "", "", "as_is", 0, 0), text |-> "",
     done |-> FALSE,
     verdict |-> [ack |-> FALSE, handoff |-> FALSE, yes |-> FALSE, no |-> FALSE]]

Init ==
    /\ InitChat
    /\ InitNoLeads
    /\ lexicon = NoLexicon

\* answer_question tabulated over the inputs of the model, so that every
\* request looks its result up instead of recomputing it.
Answers ==
    [m \in Messages, a \in BOOLEAN, g \in GenOutcomes \cup {NoGen} |->
        answer_question(m, a, g)]

\* POST /chat: the message goes to answer_question and the reply comes back
\* (an exception of answer_question becomes the framework's error response).
\* `gen` is what the generation capability does in this call, NoGen if the
\* call does not invoke it.
chat(message, gen) ==
    LET r == Answers[message, AWAITING_LEAD_CONFIRM, gen]
    IN  /\ AWAITING_LEAD_CONFIRM' = r.flag
        /\ last' = [called |-> TRUE, question |-> message,
                    entry |-> AWAITING_LEAD_CONFIRM,
                    gen |-> gen,
                    reply |-> r.reply, raised |-> r.raised,
                    gen_calls |-> r.gen_calls, trace |-> r.trace]
        /\ prev' = [called |-> last.called, entry |-> last.entry,
                    reply |-> last.reply, raised |-> last.raised,
                    flag |-> AWAITING_LEAD_CONFIRM,
                    same_question |-> last.called /\ last.question = message]

\* The outcomes of the generation capability to consider for a message: all
\* of them if answer_question reaches the generation call, none otherwise.
GenChoices(message) ==
    IF Answers[message, AWAITING_LEAD_CONFIRM, GenRaise].gen_calls = 0
    THEN {NoGen}
    ELSE GenOutcomes

Next == \E message \in Messages : \E gen \in GenChoices(message) :
            /\ chat(message, gen)
            /\ UNCHANGED <<session, lead_vars, lexicon>>

Spec == Init /\ [][Next]_vars

(***************************************************************************)
(* Several customers on one process.  ChatRequest carries nothing but the  *)
(* message, so the process cannot tell its customers apart; `session`      *)
(* keeps, outside the program, each customer's own view: whether the last  *)
(* reply that customer received carried the callback offer.                *)
(***************************************************************************)

\* What the customers send in the runs with several customers.
CustomerMessages ==
    {"hello", "thanks", "ok", "YES", "no thanks", "yes it hurts",
     "take my information"}

\* POST /chat sent by customer c.
chat_from(c, message, gen) ==
    LET r == Answers[message, AWAITING_LEAD_CONFIRM, gen]
    IN  /\ chat(message, gen)
        /\ session' =
              [sender |-> c,
               was_offered |-> session.offered[c],
               prev_sender |-> session.sender,
               prev_was_offered |-> session.was_offered,
               prev_accepted |-> /\ last.called /\ last.trace = <<>>
                                 /\ last.reply = TRIGGER_LEAD_FLOW,
               offered |-> [session.offered EXCEPT
                              ![c] = ~r.raised /\ endswith(r.reply, CALLBACK_OFFER)]]

NextCustomers ==
    \E c \in Customers, message \in CustomerMessages :
        \E gen \in GenChoices(message) :
            chat_from(c, message, gen) /\ UNCHANGED <<lead_vars, lexicon>>

SpecCustomers == Init /\ [][NextCustomers]_vars

(***************************************************************************)
(* POST /lead: the record store leads.csv and the email notification.      *)
(* The file is a sequence of rows, a row a tuple of fields.                *)
(***************************************************************************)

\* Most submissions in a run.
MaxLeads == 3

\* The header row save_lead_to_csv writes into a new file.
CSV_HEADER == <<"timestamp", "name", "email", "message">>

\* The response of the /lead endpoint.
LEAD_RESPONSE ==
    [status |-> "ok", received |-> TRUE, emailed |-> TRUE,
     message |-> "Lead captured successfully."]

\* LeadRequest bodies the widget submits.
LeadRequests ==
    {[name |-> "Ann", email |-> "ann@example.com", message |-> "call me"],
     [name |-> "Bob", email |-> "bob@example.com", message |-> "tooth, pain"]}

\* Values of datetime.now().isoformat(timespec="seconds").
Timestamps == {"2025-01-01T09:00:00", "2025-01-01T09:00:01"}

\* A row left in leads.csv by an earlier run of the service.
OLD_ROW == <<"2024-12-31T18:00:00", "Zoe", "zoe@example.com", "hi">>

\* leads.csv as a starting process may find it.
InitialFiles ==
    {NoFile,
     [exists |-> TRUE, rows |-> <<CSV_HEADER>>],
     [exists |-> TRUE, rows |-> <<CSV_HEADER, OLD_ROW>>]}

\* The row writer.writerow writes for a lead.
LeadRow(req, now) == <<now, req.name, req.email, req.message>>

\* save_lead_to_csv with the file opened in mode "w".
save_lead_to_csv_Truncates(csv, req, now) ==
    LET is_new_file == ~csv.exists
        opened == <<>>
        headed == IF is_new_file THEN Append(opened, CSV_HEADER) ELSE opened
    IN  [exists |-> TRUE, rows |-> Append(headed, LeadRow(req, now))]

\* save_lead_to_csv: the file after the call.
save_lead_to_csv(csv, req, now) ==
    LET is_new_file == ~csv.exists
        opened == csv.rows
        headed == IF is_new_file THEN Append(opened, CSV_HEADER) ELSE opened
    IN  [exists |-> TRUE, rows |-> Append(headed, LeadRow(req, now))]

\* The lead handler with the save moved into the background task.
lead_handler_SaveLater(csv, req, now) ==
    [csv |-> csv,
     entry |-> [req |-> req, now |-> now, email |-> "queued",
                response |-> LEAD_RESPONSE]]

\* The lead handler: save, queue the email task, respond.  Gives the file
\* after the save and the submission as recorded in `leads`.
lead_handler(csv, req, now) ==
    [csv |-> save_lead_to_csv(csv, req, now),
     entry |-> [req |-> req, now |-> now, email |-> "queued",
                response |-> LEAD_RESPONSE]]

\* Timestamps do not go back: the ones still possible after the last one.
LaterTimestamps ==
    IF leads = <<>> THEN Timestamps
    ELSE {t \in Timestamps :
            \/ t = leads[Len(leads)].now
            \/ leads[Len(leads)].now = "2025-01-01T09:00:00"}

\* POST /lead
lead(req, now) ==
    LET h == lead_handler(leads_csv, req, now)
    IN  /\ Len(leads) < MaxLeads
        /\ leads_csv' = h.csv
        /\ leads' = Append(leads, h.entry)
        /\ UNCHANGED <<leads_csv0, RESEND_API_KEY>>

\* What send_lead_email can end in: skipped without a key; otherwise sent,
\* an HTTPError, or another exception - each caught and printed.
EmailOutcomes ==
    IF ~RESEND_API_KEY THEN {"skipped"} ELSE {"sent", "http_error", "error"}

\* The background task of submission i runs.
send_lead_email(i, outcome) ==
    /\ leads[i].email = "queued"
    /\ leads' = [leads EXCEPT ![i].email = outcome]
    /\ UNCHANGED <<leads_csv, leads_csv0, RESEND_API_KEY>>

InitLead ==
    /\ InitChat
    /\ leads_csv \in InitialFiles
    /\ leads_csv0 = leads_csv
    /\ RESEND_API_KEY \in BOOLEAN
    /\ leads = <<>>
    /\ lexicon = NoLexicon

NextLead ==
    \/ \E req \in LeadRequests, now \in LaterTimestamps :
            lead(req, now) /\ UNCHANGED <<chat_vars, lexicon>>
    \/ \E i \in DOMAIN leads, outcome \in EmailOutcomes :
            send_lead_email(i, outcome) /\ UNCHANGED <<chat_vars, lexicon>>

SpecLead == InitLead /\ [][NextLead]_vars

(***************************************************************************)
(* The four predicates on their own, applied to texts put together from a  *)
(* phrase, a letter case and surrounding whitespace.                       *)
(***************************************************************************)

\* The uppercase letter of every lowercase letter.
UpperOf ==
    [c \in {Char(LowerCase, k) : k \in 1..Len(LowerCase)} |->
        Char(UpperCase, CHOOSE k \in 1..Len(LowerCase) : Char(LowerCase, k) = c)]

UpperChar(c) == IF c \in DOMAIN UpperOf THEN UpperOf[c] ELSE c

RECURSIVE upper(_)
\* str.upper()
upper(s) == IF Len(s) = 0 THEN ""
            ELSE UpperChar(Char(s, 1)) \o upper(SubSeq(s, 2, Len(s)))

\* s as typed in one of the letter cases.
Cased(s, casing) ==
    IF casing = "upper" THEN upper(s)
    ELSE IF casing = "capital" /\ Len(s) > 0
    THEN UpperChar(Char(s, 1)) \o SubSeq(s, 2, Len(s))
    ELSE s

Casings == {"as_is", "upper", "capital"}

\* Phrases the texts are built around: every acknowledgement phrase, the
\* exact triggers, explicit handoff phrases alone and inside questions and
\* inquiries, texts for the loose rule, plain questions, and nothing.
LexiconCores ==
    ack_phrases \cup
    {"", "info", "my info", "can i leave my info",
     "i want to give you my info", "take my information",
     "can someone call me?", "call me back about the price",
     "can i leave my info or is it closed?",
     "send my details", "send my details?", "send my insurance details",
     "please take my contact", "contact", "leave a message",
     "what are your hours?", "do you have whitening info", "hello"}

\* Words put before and after the phrase.
LexiconExtras ==
    {<<"", "">>, <<"", " a lot">>, <<"well ", "">>,
     <<"", ", also what are your hours?">>}

LexiconInputs ==
    {LexInput(core, x[1], x[2], casing, l, r) :
        core \in LexiconCores, x \in LexiconExtras, casing \in Casings,
        l \in 0..MaxPad, r \in 0..MaxPad}

\* The text of an input.
TextOf(i) == Padded(Cased(i.pre \o i.core \o i.post, i.casing), i.l, i.r)

\* The four predicates applied to the text.
classify ==
    /\ ~lexicon.done
    /\ lexicon' =
          [lexicon EXCEPT
             !.done = TRUE,
             !.verdict = [ack     |-> is_brief_ack(lexicon.text),
                          handoff |-> wants_handoff(lexicon.text),
                          yes     |-> _looks_like_yes(lexicon.text),
                          no      |-> _looks_like_no(lexicon.text)]]
    /\ UNCHANGED <<chat_vars, lead_vars>>

InitLexicon ==
    /\ InitChat
    /\ InitNoLeads
    /\ \E i \in LexiconInputs :
          lexicon = [NoLexicon EXCEPT !.input = i, !.text = TextOf(i)]

NextLexicon == classify

SpecLexicon == InitLexicon /\ [][NextLexicon]_vars

(***************************************************************************)
(* Properties                                                              *)
(***************************************************************************)

\* The message of the last request, as answer_question normalises it.
LastLower == lower(strip(last.question))

LastYes == _looks_like_yes(LastLower)
LastNo  == _looks_like_no(LastLower)

\* The last request was decided by step 1 (accepted or declined).
LastConsumedByStep1 == last.entry /\ (LastYes \/ LastNo)

\* C1: a call made while the flag is set, with an affirmative message,
\* returns exactly the sentinel, leaves the flag false and makes no
\* generation call - also when the message is an acknowledgement phrase.
C1_YesWhilePending ==
    (last.called /\ last.entry /\ LastYes)
        => /\ ~last.raised
           /\ last.reply = TRIGGER_LEAD_FLOW
           /\ ~AWAITING_LEAD_CONFIRM
           /\ last.gen_calls = 0

\* "ok" (an acknowledgement phrase and a yes word) accepted the pending offer.
C1_Witness ==
    /\ last.called /\ last.entry /\ LastYes
    /\ is_brief_ack(last.question)
    /\ last.reply = TRIGGER_LEAD_FLOW

\* C2: a call made while the flag is set, with a negative (and not
\* affirmative) message, returns the decline string, leaves the flag false
\* and makes no generation call, whatever else the message contains.
C2_NoWhilePending ==
    (last.called /\ last.entry /\ LastNo /\ ~LastYes)
        => /\ ~last.raised
           /\ last.reply = DECLINE_REPLY
           /\ ~AWAITING_LEAD_CONFIRM
           /\ last.gen_calls = 0

\* A negative message that also carries a handoff phrase declined the offer.
C2_Witness ==
    /\ last.called /\ last.entry /\ LastNo
    /\ wants_handoff(last.question)
    /\ last.reply = DECLINE_REPLY

\* The generation capability failed in the sense of the claim: it raised or
\* timed out, returned a malformed response, or returned empty output.
GenFailed(g) == g.kind \in {"raise", "malformed"} \/ (g.kind = "text" /\ g.text = "")

\* C3 (as claimed): whenever the generation capability fails,
\* answer_question returns the fixed apology string and raises nothing.
C3_ApologyOnAnyFailure ==
    (last.called /\ last.gen_calls = 1 /\ GenFailed(last.gen))
        => (~last.raised /\ last.reply = APOLOGY_REPLY)

\* C4: after a successfully generated answer, a pain/appointment keyword in
\* the original message (with wants_handoff false) makes the reply the
\* generated answer followed by the callback offer and leaves the flag set;
\* without a keyword the reply is the generated answer alone and the flag is
\* false.  The generated answer is the extracted text, stripped.
C4_OfferAfterGeneratedAnswer ==
    (last.called /\ last.gen_calls = 1 /\ last.gen.kind = "text")
        => /\ (looks_like_pain_or_appt(LastLower) /\ ~wants_handoff(last.question))
                => /\ ~last.raised
                   /\ last.reply = strip(last.gen.text) \o CALLBACK_OFFER
                   /\ AWAITING_LEAD_CONFIRM
           /\ ~looks_like_pain_or_appt(LastLower)
                => /\ ~last.raised
                   /\ last.reply = strip(last.gen.text)
                   /\ ~AWAITING_LEAD_CONFIRM

\* A message with a keyword got a generated answer that has none, and the
\* offer was appended.
C4_Witness ==
    /\ last.called /\ last.gen_calls = 1 /\ last.gen.kind = "text"
    /\ looks_like_pain_or_appt(LastLower)
    /\ ~looks_like_pain_or_appt(lower(last.gen.text))
    /\ last.gen.text # strip(last.gen.text)
    /\ AWAITING_LEAD_CONFIRM
    /\ endswith(last.reply, CALLBACK_OFFER)

C6_PendingResolvedFirst ==
    last.called
        => /\ \A i \in DOMAIN last.trace :
                last.trace[i].op \in {"is_brief_ack", "wants_handoff", "generate"}
                    => ~last.trace[i].flag
           /\ (last.trace = <<>>)
                => /\ last.entry /\ (LastYes \/ LastNo)
                   /\ prev.called /\ ~prev.raised
                   /\ endswith(prev.reply, CALLBACK_OFFER)

\* A call entered with the flag set went on to the later classifications.
C6_Witness ==
    /\ last.called /\ last.entry
    /\ Len(last.trace) >= 3

\* C7: a call made while the flag is set, with a message that is neither
\* affirmative nor negative, gives the reply and the flag that the same
\* call gives when the flag is false, for every generator outcome.
C7_DiscardThenAsIdle ==
    (last.called /\ last.entry /\ ~LastYes /\ ~LastNo)
        => \A g \in (IF last.gen_calls = 0 THEN GenOutcomes ELSE {last.gen}) :
              LET idle == Answers[last.question, FALSE, g]
              IN  /\ idle.reply = last.reply
                  /\ idle.raised = last.raised
                  /\ idle.flag = AWAITING_LEAD_CONFIRM
                  /\ idle.gen_calls = last.gen_calls

\* A pending question was discarded by a message that got a generated answer
\* and no new offer.
C7_Witness ==
    /\ last.called /\ last.entry /\ ~LastYes /\ ~LastNo
    /\ last.gen_calls = 1 /\ last.gen.kind = "text"
    /\ ~AWAITING_LEAD_CONFIRM

\* C8 (as claimed): two consecutive calls with the same acknowledgement
\* message both return the thank-you reply and leave the flag false, from
\* every reachable state.
C8_AckTwiceBothThanks ==
    (last.called /\ prev.called /\ prev.same_question
     /\ is_brief_ack(last.question))
        => /\ prev.reply = THANKS_REPLY /\ ~prev.flag
           /\ last.reply = THANKS_REPLY /\ ~AWAITING_LEAD_CONFIRM

\* C8 (amended): of two consecutive calls with the same acknowledgement
\* message the second returns the thank-you reply; so does the first,
\* unless a question is pending and the phrase is also affirmative, in
\* which case the first returns the sentinel.  The flag is false after each.
C8_AckTwiceAmended ==
    (last.called /\ prev.called /\ prev.same_question
     /\ is_brief_ack(last.question))
        => /\ prev.reply = (IF prev.entry /\ LastYes THEN TRIGGER_LEAD_FLOW
                            ELSE THANKS_REPLY)
           /\ ~prev.raised /\ ~prev.flag
           /\ last.reply = THANKS_REPLY
           /\ ~last.raised /\ ~AWAITING_LEAD_CONFIRM

\* The same affirmative acknowledgement twice, the first while a question
\* was pending.
C8_Witness ==
    /\ last.called /\ prev.called /\ prev.same_question
    /\ is_brief_ack(last.question)
    /\ prev.entry /\ LastYes
    /\ last.reply = THANKS_REPLY

\* C9: an acknowledgement that step 1 does not consume gets the thank-you
\* reply; the flag is false at step 2 and on return, and the acknowledgement
\* check is the only classification evaluated (no handoff check, no
\* generation call).
C9_AckStep ==
    (last.called /\ is_brief_ack(last.question) /\ ~LastConsumedByStep1)
        => /\ ~last.raised
           /\ last.reply = THANKS_REPLY
           /\ last.gen_calls = 0
           /\ last.trace = <<Ev("is_brief_ack", FALSE)>>
           /\ ~AWAITING_LEAD_CONFIRM

\* An acknowledgement that is not a yes word arrived while a question was
\* pending.
C9_Witness ==
    /\ last.called /\ last.entry
    /\ is_brief_ack(last.question) /\ ~LastYes
    /\ last.reply = THANKS_REPLY

\* C10: a handoff message that neither step 1 nor step 2 consumes gets
\* exactly the sentinel, with no generation call, and the flag is false.
C10_HandoffStep ==
    (last.called /\ wants_handoff(last.question)
     /\ ~LastConsumedByStep1 /\ ~is_brief_ack(last.question))
        => /\ ~last.raised
           /\ last.reply = TRIGGER_LEAD_FLOW
           /\ last.gen_calls = 0
           /\ ~AWAITING_LEAD_CONFIRM

\* "take my information" got the sentinel.
C10_Witness ==
    /\ last.called /\ last.question = "take my information"
    /\ last.reply = TRIGGER_LEAD_FLOW
    /\ last.gen_calls = 0

\* C11: the flag belongs to the process, not to a customer.  A customer who
\* was never offered a call and sends an affirmative message while the flag
\* is set gets the sentinel and clears the flag; a customer who was offered
\* a call and answers yes after the flag was cleared is not handled by
\* step 1 any more.
C11_SharedFlag ==
    last.called
        => /\ (last.entry /\ LastYes /\ ~session.was_offered)
                => /\ last.reply = TRIGGER_LEAD_FLOW
                   /\ last.trace = <<>>
                   /\ ~AWAITING_LEAD_CONFIRM
           /\ (~last.entry /\ LastYes /\ session.was_offered)
                => last.trace # <<>>

\* A was offered a call, B (never offered one) said yes and got the
\* sentinel, and A's own yes then went past step 1.
C11_Witness ==
    /\ last.called /\ session.sender = "A" /\ session.was_offered
    /\ LastLower = "yes" /\ ~last.entry /\ last.trace # <<>>
    /\ prev.same_question
    /\ session.prev_sender = "B" /\ ~session.prev_was_offered
    /\ session.prev_accepted

\* The last request was decided by step 1, 2 or 3: accepted or declined,
\* answered as an acknowledgement, or answered as a handoff request.
LastDecidedEarly ==
    \/ LastConsumedByStep1
    \/ is_brief_ack(last.question)
    \/ wants_handoff(last.question)

\* No call invokes the generation capability more than once, and a call
\* decided by step 1, 2 or 3 does not invoke it.
GenCallsAtMostOnce ==
    last.called
        => /\ last.gen_calls \in {0, 1}
           /\ LastDecidedEarly => last.gen_calls = 0

\* C12 (as claimed): answer_question invokes the generation capability at
\* most once; after a failed attempt it does not retry and returns the
\* fixed fallback string; it does not invoke it at all when step 1, 2 or 3
\* decides the reply.
C12_SingleAttemptThenFallback ==
    /\ GenCallsAtMostOnce
    /\ (last.called /\ last.gen_calls = 1 /\ GenFailed(last.gen))
        => (~last.raised /\ last.reply = APOLOGY_REPLY)

\* C13 (as claimed): with the flag false the yes/no vocabulary plays no
\* part, and the sentinel is returned only if wants_handoff holds or the
\* preceding reply armed the confirmation and the message is affirmative.
C13_SentinelOnlyByHandoffOrYes ==
    last.called
        => /\ ~last.entry => last.trace # <<>>
           /\ (~last.raised /\ last.reply = TRIGGER_LEAD_FLOW)
                => \/ wants_handoff(last.question)
                   \/ last.entry /\ LastYes

\* C13 (amended): with the flag false step 1 decides nothing and the reply
\* is the one steps 2 to 5 give, whether or not the message is affirmative
\* or negative; the sentinel is returned without a generation call only if
\* wants_handoff holds or the flag was set and the message is affirmative;
\* any other sentinel reply is the generator's own output.
C13_YesNoOnlyWhilePending ==
    last.called
        => /\ ~last.entry
                => /\ last.trace # <<>>
                   /\ is_brief_ack(last.question)
                        => last.reply = THANKS_REPLY
                   /\ (~is_brief_ack(last.question) /\ wants_handoff(last.question))
                        => last.reply = TRIGGER_LEAD_FLOW
                   /\ (~is_brief_ack(last.question) /\ ~wants_handoff(last.question))
                        => last.gen_calls = 1
           /\ (~last.raised /\ last.reply = TRIGGER_LEAD_FLOW /\ last.gen_calls = 0)
                => \/ wants_handoff(last.question)
                   \/ last.entry /\ LastYes
           /\ (~last.raised /\ last.reply = TRIGGER_LEAD_FLOW /\ last.gen_calls = 1)
                => /\ last.gen.kind = "text"
                   /\ strip(last.gen.text) = TRIGGER_LEAD_FLOW

\* "yes" sent with the flag false went to the generation path.
C13_Witness ==
    /\ last.called /\ ~last.entry
    /\ LastLower = "yes"
    /\ last.gen_calls = 1
    /\ last.reply # TRIGGER_LEAD_FLOW

\* The rows leads.csv starts from: those an earlier run left, or the header
\* written by the first save.
BaseRows == IF leads_csv0.exists THEN leads_csv0.rows ELSE <<CSV_HEADER>>

\* The row of submission i, as stored.
StoredRow(i) == leads_csv.rows[Len(BaseRows) + i]

\* C14: leads.csv is append-only: it holds what it held before, then one
\* row per submission in submission order, and the header exactly once, as
\* the first row (written by the first save when the file did not exist).
C14_AppendOnly ==
    /\ leads = <<>> => leads_csv = leads_csv0
    /\ leads # <<>>
        => /\ leads_csv.exists
           /\ Len(leads_csv.rows) = Len(BaseRows) + Len(leads)
           /\ SubSeq(leads_csv.rows, 1, Len(BaseRows)) = BaseRows
           /\ \A i \in DOMAIN leads : StoredRow(i) = LeadRow(leads[i].req, leads[i].now)
           /\ leads_csv.rows[1] = CSV_HEADER
           /\ \A k \in 2..Len(leads_csv.rows) : leads_csv.rows[k] # CSV_HEADER

\* The same lead submitted twice to a service that started without a file:
\* header, then two equal-looking records.
C14_Witness ==
    /\ ~leads_csv0.exists
    /\ Len(leads) = 2
    /\ leads[1].req = leads[2].req
    /\ Len(leads_csv.rows) = 3

\* C19: every submission whose email task is queued or has run - sent,
\* failed or skipped - has its record in the store and the response
\* status "ok", received true; the outcome of the task changes neither.
C19_SavedBeforeEmail ==
    \A i \in DOMAIN leads :
        /\ leads[i].email \in {"queued", "skipped", "sent", "http_error", "error"}
        /\ leads[i].email = "skipped" <=> (~RESEND_API_KEY /\ leads[i].email # "queued")
        /\ Len(leads_csv.rows) >= Len(BaseRows) + i
        /\ StoredRow(i) = LeadRow(leads[i].req, leads[i].now)
        /\ leads[i].response.status = "ok"
        /\ leads[i].response.received

\* One email failed with an HTTP error, a later one is still queued, and
\* both records are stored.
C19_Witness ==
    /\ Len(leads) >= 2
    /\ leads[1].email = "http_error"
    /\ leads[2].email = "queued"
    /\ StoredRow(1) = LeadRow(leads[1].req, leads[1].now)
    /\ StoredRow(2) = LeadRow(leads[2].req, leads[2].now)

\* The text given to the predicates, normalised.
LexLower == lower(strip(lexicon.text))

\* The text is an acknowledgement phrase and nothing else, in whatever
\* letter case and whitespace.
LexBareAck ==
    /\ lexicon.input.core \in ack_phrases
    /\ lexicon.input.pre = "" /\ lexicon.input.post = ""

\* C15: is_brief_ack is true exactly of the texts whose lowercased, trimmed
\* form is an acknowledgement phrase of at most 30 characters: of every
\* phrase in every letter case with any surrounding whitespace, and of no
\* text with words added.
C15_AckExactly ==
    lexicon.done
        => /\ lexicon.verdict.ack <=> LexBareAck
           /\ lexicon.verdict.ack <=> (LexLower \in ack_phrases /\ Len(LexLower) <= 30)

\* An acknowledgement phrase in capitals with whitespace on both sides was
\* recognised.
C15_Witness ==
    /\ lexicon.done /\ lexicon.verdict.ack
    /\ lexicon.input.casing = "upper"
    /\ lexicon.input.l > 0 /\ lexicon.input.r > 0

\* The three rules of wants_handoff on the normalised text.
LexRule1 == LexLower \in {"info", "my info"}
LexRule2 == AnyIn(explicit_triggers, LexLower)
LexRule3 == AnyIn(info_words, LexLower) /\ AnyIn(verbs, LexLower)
LexSuppressed == endswith(LexLower, "?") \/ AnyIn(inquiry_words, LexLower)

\* The text is exactly the phrase p, in whatever case and whitespace.
LexIs(p) ==
    /\ lexicon.input.core = p
    /\ lexicon.input.pre = "" /\ lexicon.input.post = ""

\* C16: rule 1 and rule 2 make wants_handoff true whatever else the text
\* has (a final "?", an inquiry word); a final "?" or an inquiry word
\* suppresses rule 3 only.
C16_HandoffRuleOrder ==
    lexicon.done
        => /\ (LexRule1 \/ LexRule2) => lexicon.verdict.handoff
           /\ ~(LexRule1 \/ LexRule2)
                => (lexicon.verdict.handoff <=> (LexRule3 /\ ~LexSuppressed))
           /\ LexIs("do you have whitening info") => ~lexicon.verdict.handoff
           /\ LexIs("what are your hours?") => ~lexicon.verdict.handoff
           /\ LexIs("can i leave my info") => lexicon.verdict.handoff

\* An explicit handoff phrase inside a question with an inquiry word.
C16_Witness ==
    /\ lexicon.done /\ lexicon.verdict.handoff
    /\ LexRule2 /\ ~LexRule1
    /\ endswith(LexLower, "?") /\ AnyIn(inquiry_words, LexLower)

\* s is empty or made of whitespace only.
IsBlank(s) == \A i \in 1..Len(s) : Char(s, i) \in Whitespace

\* C17: an empty or whitespace-only message makes all four predicates
\* false; in no state is it taken as yes/no, acknowledgement or handoff: it
\* goes to the generation path, and a pending question is discarded.
C17_BlankFallsThrough ==
    (last.called /\ IsBlank(last.question))
        => /\ ~is_brief_ack(last.question)
           /\ ~wants_handoff(last.question)
           /\ ~_looks_like_yes(last.question)
           /\ ~_looks_like_no(last.question)
           /\ last.gen_calls = 1
           /\ \A i \in DOMAIN last.trace : ~last.trace[i].flag
           /\ ~AWAITING_LEAD_CONFIRM

\* A whitespace-only message arrived while a question was pending.
C17_Witness ==
    /\ last.called /\ last.entry
    /\ IsBlank(last.question) /\ Len(last.question) > 0
    /\ last.gen_calls = 1

\* C18 (as claimed): a reply that contains the sentinel token is the token
\* alone, and the flag is false after it.
C18_SentinelAlone ==
    (last.called /\ ~last.raised /\ Contains(TRIGGER_LEAD_FLOW, last.reply))
        => /\ last.reply = TRIGGER_LEAD_FLOW
           /\ ~AWAITING_LEAD_CONFIRM

\* The last call reached the step-5 post-processing.
LastReachedPost == \E i \in DOMAIN last.trace : last.trace[i].op = "post"

\* C20: at step 5 wants_handoff(message) is false, so the offer is appended
\* and the flag set exactly when the message has a pain/appointment
\* keyword.
C20_GuardNeverDecides ==
    (last.called /\ LastReachedPost)
        => /\ ~wants_handoff(last.question)
           /\ AWAITING_LEAD_CONFIRM <=> looks_like_pain_or_appt(LastLower)
           /\ last.reply =
                strip(last.gen.text) \o
                (IF looks_like_pain_or_appt(LastLower) THEN CALLBACK_OFFER ELSE "")

\* Step 5 ran for a message with a keyword and armed the flag.
C20_Witness ==
    /\ last.called /\ LastReachedPost
    /\ looks_like_pain_or_appt(LastLower)
    /\ AWAITING_LEAD_CONFIRM
=============================================================================
